---- MODULE Spec2Model ----
(***************************************************************************)
(* A model of src/utils.py: show_audio(a), the notebook helper that plots  *)
(* a waveform and displays an audio player for a clip                      *)
(* a = (sample_rate, audio_array).                                         *)
(*                                                                         *)
(* Each source line of the function body is one action; pc names the line  *)
(* that runs next.  Times are exact rationals <<p, q>> in lowest terms     *)
(* with q > 0, so equality of two times is equality of the pairs (the      *)
(* float64 values of numpy agree with them up to rounding).                *)
(*                                                                         *)
(* The library calls are modelled by what the libraries do:                *)
(*   - len(x)/r is Python true division: ZeroDivisionError when r = 0;     *)
(*   - np.linspace(start, stop, num) with its default endpoint=True;       *)
(*   - Axes.plot raises ValueError when x and y differ in length;          *)
(*   - IPython's Audio(data, rate=...) encodes the data to WAV in its      *)
(*     constructor: it takes max(abs(data)), a ValueError on empty data,   *)
(*     and hands the rate to wave.setframerate, a wave.Error for a         *)
(*     rate <= 0;                                                          *)
(*   - besides, either display collaborator may fail for reasons of its    *)
(*     own (PlotError, DisplayError), chosen by the environment.           *)
(***************************************************************************)
EXTENDS Integers, Sequences, FiniteSets, TLC

\* ------------------------------------------------------------- bounds
MaxLen == 2
MaxRate == 2
MaxCalls == 2

\* sample rates tried: a negative one, zero and the positive ones
Rates == (0 - 1)..MaxRate
\* amplitude values tried (a negative one and one outside [-1, 1])
Amplitudes == {0 - 1, 2}

RECURSIVE SeqsUpTo(_)
SeqsUpTo(n) ==
  IF n = 0 THEN {<<>>}
  ELSE LET S == SeqsUpTo(n - 1)
       IN  S \cup {Append(s, v) : s \in {t \in S : Len(t) = n - 1}, v \in Amplitudes}

Clips == [rate : Rates, samples : SeqsUpTo(MaxLen)]

\* ---------------------------------------------------------- rationals
Abs(x) == IF x < 0 THEN 0 - x ELSE x

RECURSIVE Gcd(_, _)
Gcd(x, y) == IF y = 0 THEN x ELSE Gcd(y, x % y)

\* p/q in lowest terms with a positive denominator (q # 0)
Rat(p, q) ==
  LET g == Gcd(Abs(p), Abs(q))
      s == IF q < 0 THEN 0 - 1 ELSE 1
  IN  <<(s * p) \div g, (s * q) \div g>>

RatAdd(r, t) == Rat(r[1] * t[2] + t[1] * r[2], r[2] * t[2])
RatSub(r, t) == Rat(r[1] * t[2] - t[1] * r[2], r[2] * t[2])
\* r * k / d for integers k and d # 0
RatScale(r, k, d) == Rat(r[1] * k, r[2] * d)

Zero == Rat(0, 1)

\* ------------------------------------------------- line 14: time axis
\* np.linspace with endpoint=False: the step is delta/num (not what the code calls)
LinspaceNoEndpoint(start, stop, num) ==
  LET delta == RatSub(stop, start)
  IN  [i \in 1..num |-> RatAdd(start, RatScale(delta, i - 1, num))]

\* np.linspace(start, stop, num), endpoint=True:
\*   div = num - 1; y = arange(0, num); y = y * (delta/div) if div > 0 else y * delta;
\*   y += start; if num > 1: y[-1] = stop
Linspace(start, stop, num) ==
  LET div   == num - 1
      delta == RatSub(stop, start)
      y     == [i \in 1..num |->
                  IF div > 0 THEN RatAdd(start, RatScale(delta, i - 1, div))
                  ELSE RatAdd(start, RatScale(delta, i - 1, 1))]
  IN  IF num > 1 THEN [y EXCEPT ![num] = stop] ELSE y

\* a fencepost slip in the number of points
NumPointsFencepost(samples) == Len(samples) + 1

\* np.round(len(a[1])): the length is an integer, which rounds to itself
NumPoints(samples) == Len(samples)

\* ------------------------------------------------- line 13: new figure
NoFigure == 0

\* a variant that draws into the current figure when there is one (plt.gcf)
subplotsReuse(figs) ==
  IF figs = <<>>
  THEN [figs |-> <<[number |-> 1, lines |-> <<>>, xlabel |-> "", ylabel |-> ""]>>, fig |-> 1]
  ELSE [figs |-> figs, fig |-> Len(figs)]

\* plt.subplots(): a new, empty figure with the next free number is added to
\* pyplot's open figures; the call holds it as fig, ax
subplots(figs) ==
  [figs |-> Append(figs, [number |-> Len(figs) + 1, lines |-> <<>>,
                          xlabel |-> "", ylabel |-> ""]),
   fig  |-> Len(figs) + 1]

\* ------------------------------------------------- line 15: plot
\* a variant that draws every line into the first open figure (shared axes)
ax_plot_shared(figs, f, x, y) ==
  [figs EXCEPT ![1].lines = Append(@, [x |-> x, y |-> y])]

\* ax.plot(x, y): one line with the given horizontal and vertical values
ax_plot(figs, f, x, y) ==
  [figs EXCEPT ![f].lines = Append(@, [x |-> x, y |-> y])]

\* a variant that clips the amplitudes to [-1, 1] before handing them on
AudioArgsClipped(clip) ==
  [data |-> [i \in 1..Len(clip.samples) |->
               IF clip.samples[i] > 1 THEN 1
               ELSE IF clip.samples[i] < 0 - 1 THEN 0 - 1 ELSE clip.samples[i]],
   rate |-> clip.rate]

\* line 18: the arguments of Audio(a[1], rate=a[0])
AudioArgs(clip) == [data |-> clip.samples, rate |-> clip.rate]

\* the error Audio's constructor ends in for these arguments, "None" if none
AudioError(args) ==
  IF args.data = <<>> THEN "ValueError"
  ELSE IF args.rate <= 0 THEN "wave.Error"
  ELSE "None"

\* -------------------------------------------------------------- state
VARIABLES
  clips,      \* the caller's buffers: the two clips the notebook holds
  a,          \* the argument of the running/last call: [rate, samples]
  pc,         \* "idle", or the line of show_audio that runs next
  fig,        \* local fig, ax: index of the call's figure, NoFigure if unbound
  time_axis,  \* local time_axis (<<>> while unbound)
  bound,      \* names of the locals bound in the running call's frame
  figures,    \* the display surface: pyplot's figures, in creation order
  outputs,    \* the display surface: audio controls displayed, in order
  raised,     \* the exception a callee raised in the running/last call, or "None"
  outcome,    \* last call: "running", "None" (returned None) or the exception it ended in
  calls       \* finished calls, in order: [arg, outcome, fig, audio]

vars == <<clips, a, pc, fig, time_axis, bound, figures, outputs, raised, outcome, calls>>

Init ==
  /\ clips \in Clips \X Clips
  /\ a = clips[1]
  /\ pc = "idle"
  /\ fig = NoFigure
  /\ time_axis = <<>>
  /\ bound = {}
  /\ figures = <<>>
  /\ outputs = <<>>
  /\ raised = "None"
  /\ outcome = "None"
  /\ calls = <<>>

\* the call ends (by return or by an exception leaving it): the frame is dropped
Finish(result, audio) ==
  /\ pc' = "idle"
  /\ outcome' = result
  /\ calls' = Append(calls, [arg |-> a, outcome |-> result, fig |-> fig, audio |-> audio])
  /\ fig' = NoFigure
  /\ time_axis' = <<>>
  /\ bound' = {}

\* line 12: the caller calls show_audio(a) on one of its clips
Call ==
  /\ pc = "idle"
  /\ Len(calls) < MaxCalls
  /\ \E i \in 1..2 : a' = clips[i]
  /\ pc' = "subplots"
  /\ outcome' = "running"
  /\ raised' = "None"
  /\ UNCHANGED <<clips, fig, time_axis, bound, figures, outputs, calls>>

\* line 13: fig, ax = plt.subplots()
Subplots ==
  /\ pc = "subplots"
  /\ LET r == subplots(figures)
     IN  /\ figures' = r.figs
         /\ fig' = r.fig
  /\ bound' = bound \cup {"fig"}
  /\ pc' = "linspace"
  /\ UNCHANGED <<clips, a, time_axis, outputs, raised, outcome, calls>>

\* line 14: time_axis = np.linspace(start=0, stop=len(a[1])/a[0], num=np.round(len(a[1])))
Linspace14 ==
  /\ pc = "linspace"
  /\ IF a.rate = 0
     THEN /\ raised' = "ZeroDivisionError"
          /\ Finish("ZeroDivisionError", 0)
          /\ UNCHANGED <<clips, a, figures, outputs>>
     ELSE /\ time_axis' = Linspace(Zero, Rat(Len(a.samples), a.rate), NumPoints(a.samples))
          /\ bound' = bound \cup {"time_axis"}
          /\ pc' = "plot"
          /\ UNCHANGED <<clips, a, fig, figures, outputs, raised, outcome, calls>>

\* a variant that goes on to the audio display right after the plot
PlotThenDisplay ==
  /\ pc = "plot"
  /\ figures' = ax_plot(figures, fig, time_axis, a.samples)
  /\ pc' = "display"
  /\ UNCHANGED <<clips, a, fig, time_axis, bound, outputs, raised, outcome, calls>>

\* a variant that catches the plot's exception and carries on
PlotCatching ==
  /\ pc = "plot"
  /\ \E fault \in BOOLEAN :
       IF fault
       THEN /\ raised' = "PlotError"
            /\ pc' = "set_xlabel"
            /\ UNCHANGED <<clips, a, fig, time_axis, bound, figures, outputs, outcome, calls>>
       ELSE /\ figures' = ax_plot(figures, fig, time_axis, a.samples)
            /\ pc' = "set_xlabel"
            /\ UNCHANGED <<clips, a, fig, time_axis, bound, outputs, raised, outcome, calls>>

\* line 15: ax.plot(time_axis, a[1])
Plot ==
  /\ pc = "plot"
  /\ \E fault \in BOOLEAN :
       LET exc == IF Len(time_axis) # Len(a.samples) THEN "ValueError"
                  ELSE IF fault THEN "PlotError" ELSE "None"
       IN  IF exc # "None"
           THEN /\ raised' = exc
                /\ Finish(exc, 0)
                /\ UNCHANGED <<clips, a, figures, outputs>>
           ELSE /\ figures' = ax_plot(figures, fig, time_axis, a.samples)
                /\ pc' = "set_xlabel"
                /\ UNCHANGED <<clips, a, fig, time_axis, bound, outputs, raised, outcome, calls>>

\* line 16: ax.set_xlabel('Time (seconds)')
SetXlabel ==
  /\ pc = "set_xlabel"
  /\ figures' = [figures EXCEPT ![fig].xlabel = "Time (seconds)"]
  /\ pc' = "set_ylabel"
  /\ UNCHANGED <<clips, a, fig, time_axis, bound, outputs, raised, outcome, calls>>

\* line 17: ax.set_ylabel('Amplitude')
SetYlabel ==
  /\ pc = "set_ylabel"
  /\ figures' = [figures EXCEPT ![fig].ylabel = "Amplitude"]
  /\ pc' = "display"
  /\ UNCHANGED <<clips, a, fig, time_axis, bound, outputs, raised, outcome, calls>>

\* line 18: display(Audio(a[1], rate=a[0])), then the implicit return None
Display ==
  /\ pc = "display"
  /\ \E fault \in BOOLEAN :
       LET args == AudioArgs(a)
           exc  == IF AudioError(args) # "None" THEN AudioError(args)
                   ELSE IF fault THEN "DisplayError" ELSE "None"
       IN  IF exc # "None"
           THEN /\ raised' = exc
                /\ Finish(exc, 0)
                /\ UNCHANGED <<clips, a, figures, outputs>>
           ELSE /\ outputs' = Append(outputs, args)
                /\ Finish("None", Len(outputs) + 1)
                /\ UNCHANGED <<clips, a, figures, raised>>

Next ==
  \/ Call
  \/ Subplots
  \/ Linspace14
  \/ Plot
  \/ SetXlabel
  \/ SetYlabel
  \/ Display

Spec == Init /\ [][Next]_vars

\* ------------------------------------------------------------ claims
Finished == 1..Len(calls)
\* failures the environment injects into the display collaborators
Injected == {"PlotError", "DisplayError"}
Computed == "time_axis" \in bound
N == Len(a.samples)

\* C1, as claimed: for every positive sample_rate and every non-empty samples
\* sequence (one sample included) the computed time axis has len(samples)
\* points, starts at 0 and ends at len(samples)/sample_rate.
C1_Claim ==
  (Computed /\ a.rate > 0 /\ N >= 1) =>
     /\ Len(time_axis) = N
     /\ time_axis[1] = Zero
     /\ time_axis[N] = Rat(N, a.rate)

\* C1, amended: for every positive sample_rate and non-empty samples the time
\* axis has len(samples) points and starts at 0; with two or more samples it
\* ends at len(samples)/sample_rate, with exactly one sample it is the single
\* point 0.
C1_Amended ==
  (Computed /\ a.rate > 0 /\ N >= 1) =>
     /\ Len(time_axis) = N
     /\ time_axis[1] = Zero
     /\ (N >= 2 => time_axis[N] = Rat(N, a.rate))
     /\ (N = 1 => time_axis = <<Zero>>)

C1_Witness == Computed /\ a.rate >= 2 /\ N >= 2 /\ time_axis[N] = Rat(N, a.rate)

\* C2, as claimed: a call with sample_rate <= 0 ends in InvalidSampleRateError
\* and by then no figure was created, no plot drawn and no audio control
\* displayed.
C2_Claim ==
  /\ (pc # "idle" /\ a.rate <= 0) => fig = NoFigure
  /\ \A k \in Finished :
       calls[k].arg.rate <= 0 =>
          /\ calls[k].outcome = "InvalidSampleRateError"
          /\ calls[k].fig = NoFigure
          /\ calls[k].audio = 0

\* C3, as claimed: for a positive sample_rate the i-th point (0-based) of the
\* time axis is i/sample_rate.
C3_Claim ==
  (Computed /\ a.rate > 0) =>
     \A i \in 1..Len(time_axis) : time_axis[i] = Rat(i - 1, a.rate)

\* C4, as claimed: for a positive sample_rate and empty samples the call
\* computes an empty time axis, plots no data points, emits an audio control
\* bound to zero samples and ends without an error (the failures the
\* environment injects into the collaborators set aside).
C4_Claim ==
  \A k \in Finished :
    (/\ calls[k].arg.rate > 0
     /\ calls[k].arg.samples = <<>>
     /\ calls[k].outcome \notin Injected) =>
        /\ calls[k].outcome = "None"
        /\ figures[calls[k].fig].lines = <<[x |-> <<>>, y |-> <<>>]>>
        /\ calls[k].audio > 0
        /\ outputs[calls[k].audio].data = <<>>

\* C5: two successful calls with the same (sample_rate, samples) leave two
\* separate renders with the same content: the same time axis and plotted
\* values, the same labels, the same audio samples and rate.
C5_Idempotent ==
  \A i \in Finished : \A j \in Finished :
    (/\ i # j
     /\ calls[i].arg = calls[j].arg
     /\ calls[i].outcome = "None"
     /\ calls[j].outcome = "None") =>
        /\ calls[i].fig # calls[j].fig
        /\ calls[i].audio # calls[j].audio
        /\ figures[calls[i].fig].lines = figures[calls[j].fig].lines
        /\ figures[calls[i].fig].xlabel = figures[calls[j].fig].xlabel
        /\ figures[calls[i].fig].ylabel = figures[calls[j].fig].ylabel
        /\ outputs[calls[i].audio] = outputs[calls[j].audio]

C5_Witness ==
  /\ Len(calls) = 2
  /\ calls[1].arg = calls[2].arg
  /\ calls[1].outcome = "None"
  /\ calls[2].outcome = "None"
  /\ Len(calls[1].arg.samples) = 2

C6_State ==
  /\ a \in {clips[1], clips[2]}
  /\ (pc = "idle" => bound = {} /\ fig = NoFigure /\ time_axis = <<>>)
  /\ (pc # "idle" /\ fig # NoFigure) =>
        \A l \in 1..Len(figures[fig].lines) : figures[fig].lines[l].y = a.samples
  /\ \A k \in Finished :
       /\ calls[k].arg \in {clips[1], clips[2]}
       /\ \A l \in 1..Len(figures[calls[k].fig].lines) :
             figures[calls[k].fig].lines[l].y = calls[k].arg.samples
       /\ calls[k].audio > 0 =>
             /\ outputs[calls[k].audio].data = calls[k].arg.samples
             /\ outputs[calls[k].audio].rate = calls[k].arg.rate

\* C6: no step of show_audio changes the caller's clips; after a call returns
\* none of its locals is left bound; the plot's vertical values are exactly
\* the caller's samples, and the audio control gets exactly the caller's
\* samples and sample_rate.
C6_PassThrough == [](C6_State) /\ [][clips' = clips]_vars

C6_Witness ==
  /\ Len(calls) >= 1
  /\ calls[1].outcome = "None"
  /\ \E i \in 1..Len(calls[1].arg.samples) : calls[1].arg.samples[i] = 2

\* C7: an error raised by the plot or the audio display is the error the call
\* ends in, the steps after the failing one are skipped (a failed plot leaves
\* the figure without line and labels, a failed call emits no audio control),
\* and no call carries on after an error was raised.
C7_Propagates ==
  /\ pc # "idle" => raised = "None"
  /\ (pc = "idle" /\ calls # <<>>) =>
        /\ outcome = raised
        /\ calls[Len(calls)].outcome = raised
  /\ \A k \in Finished :
       /\ calls[k].outcome # "None" => calls[k].audio = 0
       /\ calls[k].outcome = "PlotError" =>
             /\ figures[calls[k].fig].lines = <<>>
             /\ figures[calls[k].fig].xlabel = ""
             /\ figures[calls[k].fig].ylabel = ""
  /\ Len(outputs) = Cardinality({k \in Finished : calls[k].outcome = "None"})

C7_Witness ==
  /\ Len(calls) = 2
  /\ calls[1].outcome = "PlotError"
  /\ calls[2].outcome = "DisplayError"

\* the order of a call's steps after the figure exists
C8_Order ==
  /\ pc \in {"plot", "set_xlabel", "set_ylabel", "display"} => Computed
  /\ Computed => "fig" \in bound /\ fig # NoFigure
  /\ (pc # "idle" /\ fig # NoFigure) =>
        LET f == figures[fig]
        IN  /\ f.lines # <<>> => Computed
            /\ f.xlabel \in {"", "Time (seconds)"}
            /\ f.ylabel \in {"", "Amplitude"}
            /\ f.xlabel # "" => Len(f.lines) = 1
            /\ f.ylabel # "" => f.xlabel # ""
  /\ \A k \in Finished :
       /\ calls[k].audio > 0 =>
             /\ Len(figures[calls[k].fig].lines) = 1
             /\ figures[calls[k].fig].xlabel = "Time (seconds)"
             /\ figures[calls[k].fig].ylabel = "Amplitude"
             /\ calls[k].outcome = "None"
       /\ calls[k].outcome = "None" => calls[k].audio > 0
       /\ \A j \in Finished : (j # k /\ calls[k].audio > 0) => calls[j].audio # calls[k].audio
  /\ Len(outputs) = Cardinality({k \in Finished : calls[k].audio > 0})

\* C8, as claimed: the steps run in the order time axis, plot with both
\* labels, audio display; no rendering step, the creation of the figure
\* included, happens before the time axis is computed; a successful call emits
\* exactly one plot and one audio control and returns no value.
C8_Claim ==
  /\ (pc # "idle" /\ fig # NoFigure) => Computed
  /\ C8_Order

\* C8, amended: the steps run in the order create the (empty) figure, compute
\* the time axis, plot, set the horizontal label 'Time (seconds)', set the
\* vertical label 'Amplitude', display the audio; no line is drawn before the
\* time axis is computed, but the figure is created before it; the audio
\* control is emitted only after the plot and both labels; a successful call
\* emits exactly one plot and one audio control and returns None.
C8_Amended ==
  /\ pc = "linspace" => (fig # NoFigure /\ ~Computed /\ figures[fig].lines = <<>>)
  /\ C8_Order

C8_Witness ==
  /\ Len(calls) >= 1
  /\ calls[1].outcome = "None"
  /\ pc = "linspace"

\* C9: whenever the plot step is reached, for any sample_rate and any length
\* of samples, the horizontal sequence has as many points as the samples, and
\* every line drawn has as many horizontal as vertical values.
C9_SameLength ==
  /\ pc = "plot" => Len(time_axis) = Len(a.samples)
  /\ \A f \in 1..Len(figures) : \A l \in 1..Len(figures[f].lines) :
        Len(figures[f].lines[l].x) = Len(figures[f].lines[l].y)

C9_Witness == pc = "plot" /\ a.rate < 0 /\ N = 1

\* C10: every call adds exactly one figure and none is ever removed; after n
\* calls that all succeeded the surface holds n plots and n audio controls,
\* the k-th of each being the render of the k-th call.
C10_Accumulates ==
  /\ Len(figures) = Len(calls) + (IF fig # NoFigure THEN 1 ELSE 0)
  /\ \A f \in 1..Len(figures) : figures[f].number = f
  /\ \A k \in Finished : calls[k].fig = k
  /\ (pc = "idle" /\ \A k \in Finished : calls[k].outcome = "None") =>
        /\ Len(figures) = Len(calls)
        /\ Len(outputs) = Len(calls)
        /\ \A k \in Finished :
              /\ calls[k].audio = k
              /\ Len(figures[k].lines) = 1
              /\ figures[k].lines[1].y = calls[k].arg.samples
              /\ outputs[k] = [data |-> calls[k].arg.samples, rate |-> calls[k].arg.rate]

C10_Witness ==
  /\ pc = "idle"
  /\ Len(calls) = 2
  /\ calls[1].outcome = "None"
  /\ calls[2].outcome = "None"
  /\ calls[1].arg.samples # calls[2].arg.samples

====
